---- MODULE Spec2Model ----
(***************************************************************************)
(* Model of clip_text_decoder/model.py: the beam-search decode loop of     *)
(* ClipDecoderInferenceModel.__call__ and the lazily loaded CLIP encoder   *)
(* of ImageCaptionInferenceModel.                                          *)
(*                                                                         *)
(* Token ids are small naturals.  A log-probability is an integer number   *)
(* of (arbitrary) units, always negative, as log_softmax produces.  The    *)
(* language model conditioned on one encoder state is a table from the     *)
(* last token of the prefix to the next-token log-probabilities; it is an  *)
(* input of the call.  An Optional value is <<>> (None) or <<v>>.          *)
(***************************************************************************)
EXTENDS Integers, Sequences, FiniteSets, TLC

\* Largest max_len and beam_size a call is made with.
MaxLen == 4
MaxBeam == 2

\* The tokenizer's vocabulary, three tokens here, and its end-of-sequence token.
Vocab == {0, 1, 2}
eos_token_id == 0
\* bos_token_id of the tokenizers considered: GPT-2's (bos = eos) or a distinct one.
BosChoices == {0, 1}

Devices == {"cpu", "cuda"}

\* Next-token log-probability vectors the language model may answer with: every
\* ranking of the vocabulary, the best token costing `off` units and each next
\* one a unit more (peaked: 1, flat: 3).  No two tokens are equally probable.
Offsets == {1, 3}
Rankings == {r \in [Vocab -> 0..(Cardinality(Vocab) - 1)] : \A a, b \in Vocab : a # b => r[a] # r[b]}
Dists == {[t \in Vocab |-> 0 - (off + r[t])] : r \in Rankings, off \in Offsets}
\* The language model for one encoder state: last token of the prefix -> distribution.
\* The distribution after eos is only ever read when the start token is eos.
NoLM == [t \in Vocab |-> [u \in Vocab |-> 0 - (1 + u)]]
LanguageModels(bos) == {m \in [Vocab -> Dists] : bos # eos_token_id => m[eos_token_id] = NoLM[eos_token_id]}

MaxLens == 1..MaxLen
BeamSizes == (0 - 1)..MaxBeam

None == <<>>
Some(v) == <<v>>
Last(s) == s[Len(s)]
Range(s) == {s[i] : i \in DOMAIN s}

VARIABLES
  bos_token_id,        \* self.tokenizer.bos_token_id
  device,              \* self.device: where the decoder model's parameters are
  clip_model,          \* self._clip_model: None, or Some(device it was loaded on)
  clip_preprocessor,   \* self._clip_preprocessor: None or Some(TRUE)
  pc,                  \* position of the running call; "idle" outside a call
  err,                 \* the exception that ended the call, "none" if none
  lm,                  \* self.model conditioned on encoder_hidden_states
  max_len, beam_size,  \* arguments of the call
  input_ids,           \* the beam set: list of token sequences
  beam_logprobs,       \* None, or Some(list of the beams' cumulative scores)
  step,                \* iterations of `for _ in range(max_len - 1)` started
  beam_idx,            \* position of the inner loop over input_ids (1-based)
  output_ids, logprobs, beams_done,   \* the lists one iteration builds
  best,                \* input_ids[best_beam_idx], the sequence handed to decode
  result,              \* the value returned: best without the special tokens
  queried,             \* history: prefixes the LM was queried with in this iteration
  finished,            \* history: eos-terminated candidates generated in this call
  reranks              \* history: iterations that reached the re-ranking

callvars == <<lm, max_len, beam_size, input_ids, beam_logprobs, step, beam_idx,
              output_ids, logprobs, beams_done, best, result, queried, finished, reranks>>
objvars == <<bos_token_id, device, clip_model, clip_preprocessor>>
vars == <<objvars, pc, err, callvars>>

\* A list is truthy in Python when it is neither None nor empty.
Truthy(opt) == opt # None /\ Len(opt[1]) > 0

\* A faulty topk, taking a smallest remaining entry each time.
RECURSIVE TopKFrom_Smallest(_, _, _)
TopKFrom_Smallest(vals, k, taken) ==
  IF k = 0 THEN {<<>>}
  ELSE LET rest == DOMAIN vals \ taken
           smallest == {i \in rest : \A j \in rest : vals[j] >= vals[i]}
       IN UNION {{<<i>> \o s : s \in TopKFrom_Smallest(vals, k - 1, taken \cup {i})} : i \in smallest}

\* torch.topk(k) on a 1-d tensor: the indices of the k largest entries, the largest
\* first.  Which of several equal entries comes first is unspecified, so this is
\* the set of index lists topk may return: a largest remaining entry, k times.
RECURSIVE TopKFrom(_, _, _)
TopKFrom(vals, k, taken) ==
  IF k = 0 THEN {<<>>}
  ELSE LET rest == DOMAIN vals \ taken
           largest == {i \in rest : \A j \in rest : vals[j] <= vals[i]}
       IN UNION {{<<i>> \o s : s \in TopKFrom(vals, k - 1, taken \cup {i})} : i \in largest}

\* A faulty topk, returning one entry more than asked for when there is one.
TopKIndices_OneMore(vals, k) ==
  TopKFrom(vals, IF k + 1 <= Len(vals) THEN k + 1 ELSE k, {})

TopKIndices(vals, k) == TopKFrom(vals, k, {})

\* topk raises a RuntimeError when k is out of range.
TopKRaises(vals, k) == k < 0 \/ k > Len(vals)

\* A faulty argmax, taking the last entry.
ArgMax_Last(vals) == Len(vals)

\* torch.argmax: the index of the first maximal value.
ArgMax(vals) ==
  CHOOSE i \in DOMAIN vals :
     /\ \A j \in DOMAIN vals : vals[j] <= vals[i]
     /\ \A j \in 1..(i - 1) : vals[j] < vals[i]

\* log_softmax(outputs.logits[0, -1]): the log-probabilities of the next token
\* after the prefix ids, as a tensor indexed by token id (1-based here).
NextLogProbs(m, ids) == [i \in 1..Cardinality(Vocab) |-> m[Last(ids)][i - 1]]

\* _get_beam_outputs, given the indices topk selected.
GetBeamOutputs(m, ids, sel) ==
  [output_ids |-> [i \in DOMAIN sel |-> Append(ids, sel[i] - 1)],
   logprobs   |-> [i \in DOMAIN sel |-> NextLogProbs(m, ids)[sel[i]]]]

\* A faulty end test, comparing with another token than eos.
IsDoneBeam_WrongToken(blp, ids) == Truthy(blp) /\ Last(ids) = eos_token_id + 1

\* The test that sends a beam down the carry-forward branch.
IsDoneBeam(blp, ids) == Truthy(blp) /\ Last(ids) = eos_token_id

\* A faulty accumulation, leaving the parent's score out.
AddParent_Dropped(blp, idx, lps) == lps

\* `_logprobs += beam_logprobs[beam_idx]` unless beam_logprobs is None.
AddParent(blp, idx, lps) ==
  IF blp # None THEN [i \in DOMAIN lps |-> lps[i] + blp[1][idx]] ELSE lps

\* all(beams_done)
AllDone(done) == \A i \in DOMAIN done : done[i]

\* tokenizer.decode(ids, skip_special_tokens=True): the special tokens are dropped.
Decode(bos, ids) ==
  LET keep(t) == t # bos /\ t # eos_token_id IN SelectSeq(ids, keep)

\* The clip_preprocessor and clip_model properties: _load_clip on first use.
LoadClip(dev) == [clip_model |-> Some(dev), clip_preprocessor |-> Some(TRUE)]
ClipPreprocessorProperty(cm, cp, dev) ==
  IF cp = None THEN LoadClip(dev) ELSE [clip_model |-> cm, clip_preprocessor |-> cp]
ClipModelProperty(cm, cp, dev) ==
  IF cm = None THEN LoadClip(dev) ELSE [clip_model |-> cm, clip_preprocessor |-> cp]

NoCall ==
  /\ lm = NoLM /\ max_len = 0 /\ beam_size = 0
  /\ input_ids = <<>> /\ beam_logprobs = None /\ step = 0 /\ beam_idx = 0
  /\ output_ids = <<>> /\ logprobs = <<>> /\ beams_done = <<>>
  /\ best = <<>> /\ result = <<>>
  /\ queried = {} /\ finished = {} /\ reranks = 0

Init ==
  /\ bos_token_id \in BosChoices
  /\ device = "cpu"
  /\ clip_model = None /\ clip_preprocessor = None
  /\ pc = "idle" /\ err = "none"
  /\ NoCall

\* ClipDecoderInferenceModel.to: moves the decoder model, and nothing else.
To ==
  /\ pc = "idle"
  /\ \E d \in Devices : device' = d
  /\ UNCHANGED <<bos_token_id, clip_model, clip_preprocessor, pc, err, callvars>>

GetClipModel ==
  /\ pc = "idle"
  /\ LET c == ClipModelProperty(clip_model, clip_preprocessor, device) IN
       /\ clip_model' = c.clip_model
       /\ clip_preprocessor' = c.clip_preprocessor
  /\ UNCHANGED <<bos_token_id, device, pc, err, callvars>>

GetClipPreprocessor ==
  /\ pc = "idle"
  /\ LET c == ClipPreprocessorProperty(clip_model, clip_preprocessor, device) IN
       /\ clip_model' = c.clip_model
       /\ clip_preprocessor' = c.clip_preprocessor
  /\ UNCHANGED <<bos_token_id, device, pc, err, callvars>>

\* ImageCaptionInferenceModel.__call__ up to the first iteration of the decode
\* loop: the image is preprocessed and moved to self.device, the CLIP model
\* encodes it (which fails when its weights are on another device), and
\* ClipDecoderInferenceModel.__call__ sets up the search.
CallWith(m, ml, bs) ==
  /\ LET c1 == ClipPreprocessorProperty(clip_model, clip_preprocessor, device)
         c2 == ClipModelProperty(c1.clip_model, c1.clip_preprocessor, device)
     IN
       /\ clip_model' = c2.clip_model
       /\ clip_preprocessor' = c2.clip_preprocessor
       /\ IF c2.clip_model[1] # device
            THEN /\ pc' = "error" /\ err' = "device_mismatch"
                 /\ UNCHANGED callvars
            ELSE /\ pc' = "loop" /\ err' = "none"
                 /\ lm' = m /\ max_len' = ml /\ beam_size' = bs
                 /\ input_ids' = <<<<bos_token_id>>>>
                 /\ beam_logprobs' = None
                 /\ UNCHANGED <<step, beam_idx, output_ids, logprobs, beams_done,
                                best, result, queried, finished, reranks>>
  /\ UNCHANGED <<bos_token_id, device>>

Call ==
  /\ pc = "idle"
  /\ \E ml \in MaxLens, bs \in BeamSizes, m \in LanguageModels(bos_token_id) : CallWith(m, ml, bs)

\* A faulty loop bound, one iteration too many.
InRange_OneMore(st, ml) == st < ml

\* range(max_len - 1) has another element after st of them.
InRange(st, ml) == st < ml - 1

\* Head of `for _ in range(max_len - 1)`.
LoopHead ==
  /\ pc = "loop"
  /\ IF InRange(step, max_len)
       THEN /\ step' = step + 1
            /\ output_ids' = <<>> /\ logprobs' = <<>> /\ beams_done' = <<>>
            /\ beam_idx' = 1 /\ queried' = {}
            /\ pc' = "beam"
       ELSE /\ pc' = "best"
            /\ UNCHANGED <<step, output_ids, logprobs, beams_done, beam_idx, queried>>
  /\ UNCHANGED <<objvars, err, lm, max_len, beam_size, input_ids, beam_logprobs,
                 best, result, finished, reranks>>

\* One pass of `for beam_idx, ids in enumerate(input_ids)`.
Beam ==
  /\ pc = "beam"
  /\ beam_idx <= Len(input_ids)
  /\ LET ids == input_ids[beam_idx] IN
       IF IsDoneBeam(beam_logprobs, ids)
         THEN /\ output_ids' = Append(output_ids, ids)
              /\ logprobs' = Append(logprobs, beam_logprobs[1][beam_idx])
              /\ beams_done' = Append(beams_done, TRUE)
              /\ beam_idx' = beam_idx + 1
              /\ UNCHANGED <<pc, err, queried, finished>>
         ELSE IF TopKRaises(NextLogProbs(lm, ids), beam_size)
           THEN /\ pc' = "error" /\ err' = "topk_range"
                /\ queried' = queried \cup {ids}
                /\ UNCHANGED <<output_ids, logprobs, beams_done, beam_idx, finished>>
           ELSE \E sel \in TopKIndices(NextLogProbs(lm, ids), beam_size) :
                  LET out == GetBeamOutputs(lm, ids, sel)
                      lps == AddParent(beam_logprobs, beam_idx, out.logprobs)
                  IN
                    /\ output_ids' = output_ids \o out.output_ids
                    /\ logprobs' = logprobs \o lps
                    /\ beams_done' = Append(beams_done, FALSE)
                    /\ beam_idx' = beam_idx + 1
                    /\ queried' = queried \cup {ids}
                    /\ finished' = finished \cup
                         {<<out.output_ids[i], lps[i]>> : i \in {j \in DOMAIN sel : sel[j] - 1 = eos_token_id}}
                    /\ UNCHANGED <<pc, err>>
  /\ UNCHANGED <<objvars, lm, max_len, beam_size, input_ids, beam_logprobs, step,
                 best, result, reranks>>

\* After the inner loop: break when every beam is done, else keep the top beam_size.
Rerank ==
  /\ pc = "beam"
  /\ beam_idx > Len(input_ids)
  /\ IF AllDone(beams_done)
       THEN /\ pc' = "best"
            /\ UNCHANGED <<err, input_ids, beam_logprobs, reranks>>
       ELSE IF TopKRaises(logprobs, beam_size)
         THEN /\ pc' = "error" /\ err' = "topk_range"
              /\ UNCHANGED <<input_ids, beam_logprobs, reranks>>
         ELSE \E indices \in TopKIndices(logprobs, beam_size) :
                /\ input_ids' = [i \in DOMAIN indices |-> output_ids[indices[i]]]
                /\ beam_logprobs' = Some([i \in DOMAIN indices |-> logprobs[indices[i]]])
                /\ reranks' = reranks + 1
                /\ pc' = "loop"
                /\ UNCHANGED err
  /\ UNCHANGED <<objvars, lm, max_len, beam_size, step, beam_idx, output_ids, logprobs,
                 beams_done, best, result, queried, finished>>

\* torch.tensor(beam_logprobs).argmax() and tokenizer.decode.
Finish ==
  /\ pc = "best"
  /\ IF beam_logprobs = None
       THEN /\ pc' = "error" /\ err' = "tensor_of_none"
            /\ UNCHANGED <<best, result>>
       ELSE IF Len(beam_logprobs[1]) = 0
         THEN /\ pc' = "error" /\ err' = "argmax_of_empty"
              /\ UNCHANGED <<best, result>>
         ELSE /\ best' = input_ids[ArgMax(beam_logprobs[1])]
              /\ result' = Decode(bos_token_id, best')
              /\ pc' = "done"
              /\ UNCHANGED err
  /\ UNCHANGED <<objvars, lm, max_len, beam_size, input_ids, beam_logprobs, step, beam_idx,
                 output_ids, logprobs, beams_done, queried, finished, reranks>>

\* The call returns, or its exception reaches the caller; the locals are gone.
Return ==
  /\ pc \in {"done", "error"}
  /\ pc' = "idle" /\ err' = "none"
  /\ lm' = NoLM /\ max_len' = 0 /\ beam_size' = 0
  /\ input_ids' = <<>> /\ beam_logprobs' = None /\ step' = 0 /\ beam_idx' = 0
  /\ output_ids' = <<>> /\ logprobs' = <<>> /\ beams_done' = <<>>
  /\ best' = <<>> /\ result' = <<>>
  /\ queried' = {} /\ finished' = {} /\ reranks' = 0
  /\ UNCHANGED objvars

Next ==
  \/ To
  \/ GetClipModel
  \/ GetClipPreprocessor
  \/ Call
  \/ LoopHead
  \/ Beam
  \/ Rerank
  \/ Finish
  \/ Return

Spec == Init /\ [][Next]_vars

(***************************************************************************)
(* Vocabulary of the properties.                                           *)
(***************************************************************************)
\* The decode loop of ClipDecoderInferenceModel.__call__ was entered by the call.
InDecode == pc \in {"loop", "beam", "best", "done"} \/ (pc = "error" /\ err # "device_mismatch")
Running == pc \in {"loop", "beam", "best"}
\* A beam has ended: its last generated token is the end-of-sequence token.
Ended(ids) == Len(ids) >= 2 /\ Last(ids) = eos_token_id
IsPrefix(p, c) == Len(p) <= Len(c) /\ \A i \in DOMAIN p : p[i] = c[i]
MaxOf(vals) == CHOOSE v \in Range(vals) : \A w \in Range(vals) : w <= v
\* The cumulative log-probability of a token sequence under the language model.
RECURSIVE Score(_, _)
Score(m, seq) ==
  IF Len(seq) <= 1 THEN 0
  ELSE Score(m, SubSeq(seq, 1, Len(seq) - 1)) + m[seq[Len(seq) - 1]][Last(seq)]
\* The inner loop of the current iteration has gone through every beam.
Merged == pc = "beam" /\ beam_idx > Len(input_ids)
\* The state right after an iteration's re-ranking: output_ids and logprobs
\* still hold the merged candidates the new beam set was chosen from.
Reranked == pc = "loop" /\ reranks >= 1

\* C1: with beam_size >= 1 the beam set, and its parallel list of scores, never
\* holds more than beam_size beams, from the initial set on and after each re-ranking.
C1_BeamSetBounded ==
  (InDecode /\ beam_size >= 1) =>
     /\ Len(input_ids) <= beam_size
     /\ beam_logprobs # None => Len(beam_logprobs[1]) = Len(input_ids)

\* A re-ranking with beam_size = 2 has cut four candidates down to two.
C1_Witness ==
  Reranked /\ beam_size = 2 /\ Len(output_ids) = 4 /\ Len(input_ids) = 2

\* C2: a beam that has emitted eos is never given to the language model in a
\* later step; it contributes exactly one candidate, itself with its own score;
\* and while it stays in the beam set its score does not change.
C2_State ==
  (pc = "beam" /\ beam_size >= 1) =>
     \A i \in 1..(beam_idx - 1) :
        Ended(input_ids[i]) =>
           /\ input_ids[i] \notin queried
           /\ \E j \in DOMAIN output_ids :
                /\ output_ids[j] = input_ids[i]
                /\ logprobs[j] = beam_logprobs[1][i]
                /\ \A k \in DOMAIN output_ids : IsPrefix(input_ids[i], output_ids[k]) => k = j
C2_Step ==
  (InDecode /\ InDecode' /\ beam_logprobs # None /\ beam_logprobs' # None) =>
     \A i \in DOMAIN input_ids : \A j \in DOMAIN input_ids' :
        (Ended(input_ids[i]) /\ input_ids'[j] = input_ids[i]) =>
           beam_logprobs'[1][j] = beam_logprobs[1][i]
\* C2: in every state an ended beam has been carried forward unqueried as its
\* own single candidate (C2_State), and no step changes the score of an ended
\* beam that stays in the beam set (C2_Step).
C2_EndedBeamCarried == [](C2_State) /\ [][C2_Step]_vars

\* An ended beam that survived a re-ranking has been carried forward in an
\* iteration in which the other beam was expanded.
C2_Witness ==
  /\ pc = "beam" /\ reranks >= 2 /\ queried # {}
  /\ \E i \in 1..(beam_idx - 1) : Ended(input_ids[i])

\* C3: a call with max_len = 1 returns normally, and what it decodes is the
\* start token alone or the start token and one generated token.
C3_MaxLenOne ==
  (InDecode /\ pc \in {"done", "error"} /\ max_len = 1 /\ beam_size >= 1) =>
     (pc = "done" /\ Len(best) \in {1, 2})

\* C4: a call whose beam set has become empty still returns a sequence.
C4_EmptyBeamSetFallsBack ==
  (InDecode /\ pc \in {"done", "error"} /\ beam_logprobs # None /\ input_ids = <<>>) =>
     (pc = "done" /\ Len(best) >= 1)

\* Greedy decoding: from the start token, append the most probable next token
\* until the end token has been appended or the sequence holds n tokens.
MostProbable(m, seq) == CHOOSE t \in Vocab : \A u \in Vocab : m[Last(seq)][u] <= m[Last(seq)][t]
RECURSIVE Greedy(_, _, _)
Greedy(m, seq, n) ==
  IF Len(seq) >= n \/ Ended(seq) THEN seq
  ELSE Greedy(m, Append(seq, MostProbable(m, seq)), n)

\* C5: with beam_size = 1 and max_len >= 2 the sequence the call decodes is the
\* one greedy decoding produces.
C5_GreedyEquivalence ==
  (pc = "done" /\ beam_size = 1 /\ max_len >= 2) =>
     /\ best = Greedy(lm, <<bos_token_id>>, max_len)
     /\ result = Decode(bos_token_id, Greedy(lm, <<bos_token_id>>, max_len))

\* A greedy search from a start token that is also the end token, stopped by a
\* generated end token before max_len.
C5_Witness ==
  /\ pc = "done" /\ beam_size = 1 /\ max_len = 4
  /\ bos_token_id = eos_token_id /\ Len(best) = 3 /\ Ended(best)

\* C6: with max_len >= 2 and beam_size >= 1 the returned sequence is a beam of
\* the final beam set with the largest score in it, and it ends with eos or
\* holds exactly max_len tokens.
C6_ReturnsBestCompleted ==
  (pc = "done" /\ max_len >= 2 /\ beam_size >= 1) =>
     /\ \E i \in DOMAIN input_ids :
          /\ best = input_ids[i]
          /\ \A j \in DOMAIN input_ids : beam_logprobs[1][j] <= beam_logprobs[1][i]
     /\ Last(best) = eos_token_id \/ Len(best) = max_len

\* The search ran to max_len with an ended beam, which is returned, beside a
\* lower-scoring beam of max_len tokens.
C6_Witness ==
  /\ pc = "done" /\ beam_size = 2 /\ max_len = 4
  /\ Ended(best) /\ Len(best) < max_len
  /\ \E i \in DOMAIN input_ids : Len(input_ids[i]) = max_len /\ ~Ended(input_ids[i])

\* The candidates a step is to merge: an ended beam itself with its score, an
\* active beam's k most probable one-token extensions, each scored parent + token.
TopTokens(m, ids, k) ==
  {t \in Vocab : Cardinality({u \in Vocab : m[Last(ids)][u] > m[Last(ids)][t]}) < k}
ParentScore(blp, i) == IF blp = None THEN 0 ELSE blp[1][i]
ExpectedCandidates ==
  UNION {IF Ended(input_ids[i])
           THEN {<<input_ids[i], beam_logprobs[1][i]>>}
           ELSE {<<Append(input_ids[i], t),
                   ParentScore(beam_logprobs, i) + lm[Last(input_ids[i])][t]>> :
                     t \in TopTokens(lm, input_ids[i], beam_size)}
         : i \in DOMAIN input_ids}

\* C7: at a step that does not stop the search, the merged list is the ended
\* beams and the active beams' beam_size best extensions with their cumulative
\* scores; the new beam set is beam_size of them, none left out scores strictly
\* higher than one kept, and each kept beam's score is that of its own tokens.
C7_Step ==
  /\ (Merged /\ beam_size >= 1 /\ ~AllDone(beams_done)) =>
        /\ {<<output_ids[j], logprobs[j]>> : j \in DOMAIN output_ids} = ExpectedCandidates
        /\ Len(output_ids) = Cardinality(ExpectedCandidates)
        /\ Len(logprobs) = Len(output_ids)
  /\ (Reranked /\ beam_size >= 1) =>
        /\ Len(input_ids) = beam_size
        /\ \E f \in [DOMAIN input_ids -> DOMAIN output_ids] :
             /\ \A a, b \in DOMAIN input_ids : a # b => f[a] # f[b]
             /\ \A a \in DOMAIN input_ids :
                  input_ids[a] = output_ids[f[a]] /\ beam_logprobs[1][a] = logprobs[f[a]]
             /\ \A j \in DOMAIN output_ids :
                  (\A a \in DOMAIN input_ids : f[a] # j) =>
                     \A a \in DOMAIN input_ids : logprobs[j] <= beam_logprobs[1][a]
        /\ \A a \in DOMAIN input_ids : beam_logprobs[1][a] = Score(lm, input_ids[a])

\* A re-ranking chose among an ended beam carried forward and the two
\* extensions of an active beam, and left one of the three out.
C7_Witness ==
  /\ Reranked /\ reranks >= 2 /\ beam_size = 2
  /\ Len(output_ids) = 3 /\ \E i \in DOMAIN beams_done : beams_done[i]

\* What is left of the call's work, in steps.
Measure ==
  LET w == (IF beam_size > 1 THEN beam_size ELSE 1) + 3
      r == IF max_len - 1 > step THEN max_len - 1 - step ELSE 0
  IN CASE pc = "loop" -> r * w + 2
       [] pc = "beam" -> r * w + 3 + (Len(input_ids) + 1 - beam_idx)
       [] pc = "best" -> 1
       [] OTHER -> 0

\* C8: with max_len >= 2 and beam_size >= 1 the call terminates; the loop stops,
\* with no query and the beam set unchanged, in the first iteration that finds
\* every beam ended, and runs max_len - 1 iterations otherwise; no beam ever
\* holds more than max_len tokens.
C8_State ==
  (InDecode /\ max_len >= 2 /\ beam_size >= 1) =>
     /\ step <= max_len - 1 /\ reranks <= step
     /\ \A i \in DOMAIN input_ids : Len(input_ids[i]) <= max_len
     /\ \A j \in DOMAIN output_ids : Len(output_ids[j]) <= max_len
     /\ Reranked => \E i \in DOMAIN beams_done : ~beams_done[i]
     /\ (pc = "beam" /\ \A i \in DOMAIN input_ids : Ended(input_ids[i])) => queried = {}
     /\ pc \in {"best", "done"} =>
          \/ reranks = max_len - 1
          \/ /\ reranks = step - 1
             /\ \A i \in DOMAIN input_ids : Ended(input_ids[i])
             /\ queried = {}
             /\ output_ids = input_ids /\ logprobs = beam_logprobs[1]
     /\ Running => ENABLED (LoopHead \/ Beam \/ Rerank \/ Finish)
C8_Progress ==
  (Running /\ max_len >= 2 /\ beam_size >= 1) => (Measure' < Measure /\ Measure' >= 0)
\* C8: the iteration count, the early stop and the length bound hold in every
\* state and the call is never stuck (C8_State), and every step of a running
\* call decreases Measure, a natural number, so the call terminates (C8_Progress).
C8_Terminates == [](C8_State) /\ [][C8_Progress]_vars

\* A search with room for three iterations stopped in the third, every beam
\* having ended after the second.
C8_Witness ==
  /\ pc = "done" /\ beam_size = 2 /\ max_len = 4 /\ reranks = 2 /\ step = 3
  /\ \A i \in DOMAIN input_ids : Ended(input_ids[i])

\* C9 as stated: no eos-terminated candidate generated during the call scores
\* strictly higher than the sequence the call returns.
C9_NoBetterFinishedDiscarded ==
  (pc = "done" /\ beam_size >= 1 /\ max_len >= 2) =>
     \A f \in finished : f[2] <= MaxOf(beam_logprobs[1])

\* C9 amended: no eos-terminated candidate of a step scores strictly higher than
\* the best beam that step's re-ranking keeps.
C9_NoBetterFinishedAtStep ==
  (Reranked /\ beam_size >= 1 /\ max_len >= 2) =>
     \A j \in DOMAIN output_ids :
        Last(output_ids[j]) = eos_token_id => logprobs[j] <= MaxOf(beam_logprobs[1])

\* A re-ranking has left out a candidate that ends with eos.
C9_Witness ==
  /\ Reranked /\ beam_size >= 1
  /\ \E j \in DOMAIN output_ids :
       Last(output_ids[j]) = eos_token_id /\ output_ids[j] \notin Range(input_ids)

\* C10: whenever the CLIP model is loaded it is on the decoder model's device.
C10_ClipOnDevice == clip_model # None => clip_model[1] = device
====
